---- MODULE Spec2Model ----
(***************************************************************************)
(* Model of the Texas data-center scraper                                  *)
(*   src/scripts/01_texas_datacenter_scraper.py                            *)
(*   src/scripts/02_rescrape_bad_urls.py                                   *)
(*                                                                         *)
(* Representation.                                                         *)
(*  - A Python value is a record [k, n, s]: k is its kind ("none", "num",  *)
(*    "str", "obj" for a non-empty list/dict, "missing" for a key that is  *)
(*    not in a dict), n its number, s its text.                            *)
(*  - A text is a sequence of tokens (words, numerals, punctuation marks); *)
(*    substring tests and regular expressions are evaluated on tokens.     *)
(*  - Numbers are integers (5 stands for 5.0); a numeral token may still   *)
(*    be written with a decimal point ("32.0"), which int() rejects and    *)
(*    the script-scan pattern requires.                                    *)
(***************************************************************************)
EXTENDS Integers, Sequences, FiniteSets, TLC

VARIABLES
    \* ---- merge_chunks and repeated invocations
    merges,         \* history: the merged file as each merge_chunks call left it
    invocation,     \* number of the scrape_all_texas invocation on this directory
    \* ---- rescrape_bad_urls
    bad_urls,       \* URLs of the rows identify_bad_records called bad
    good_records,   \* the rows it called good
    fixed_data,     \* re-scraped records classified fixed
    still_bad,      \* URLs whose re-scrape was classified still bad
    \* ---- one call of scrape_data_center_page, tier by tier
    ppc,        \* position in scrape_data_center_page
    doc,        \* the parsed document (soup) the call works on
    data,       \* the record under construction (the dict `data`)
    snap,       \* `data` as it stood when each finished tier left it
    \* ---- the run: discovery, scrape_all_texas, files, network
    pc,         \* position in the run
    args,       \* arguments of the scrape_all_texas invocation
    site,       \* what the remote site serves during this run
    city_urls,  \* get_texas_city_urls' result
    cities_done,\* number of city pages already visited
    per_city,   \* get_datacenters_from_city's result for each visited city
    unique_urls,\* get_texas_datacenter_urls' result
    dc_urls,    \* the URL list scrape_all_texas iterates (after cap and slice)
    idx,        \* the loop index of scrape_all_texas (enumerate from start_index)
    all_data,   \* the accumulator of kept records
    attempts,   \* history: the outcome of each attempted URL, in order
    files,      \* the output directory: file tag -> rows
    writes,     \* history: the file tags written, in order
    net         \* history: the sleeps and requests get_page performed

pvars == <<ppc, doc, data, snap>>
rsvars == <<bad_urls, good_records, fixed_data, still_bad>>
mvars == <<merges, invocation>>
rvars == <<pc, args, site, city_urls, cities_done, per_city, unique_urls,
           dc_urls, idx, all_data, attempts, files, writes, net, rsvars, mvars>>
vars == <<ppc, doc, data, snap, pc, args, site, city_urls, cities_done,
          per_city, unique_urls, dc_urls, idx, all_data, attempts, files,
          writes, net, bad_urls, good_records, fixed_data, still_bad, merges,
          invocation>>

(***************************************************************************)
(* Python values                                                           *)
(***************************************************************************)
None == [k |-> "none", n |-> 0, s |-> <<>>]
Missing == [k |-> "missing", n |-> 0, s |-> <<>>]
Obj == [k |-> "obj", n |-> 0, s |-> <<>>]
Num(x) == [k |-> "num", n |-> x, s |-> <<>>]
Str(t) == [k |-> "str", n |-> 0, s |-> t]

\* Python truthiness: `if v`, `if not v`
Truthy(v) ==
    CASE v.k = "num" -> v.n # 0
      [] v.k = "str" -> v.s # <<>>
      [] v.k = "obj" -> TRUE
      [] OTHER -> FALSE

\* `'key' in d and d['key']`
Present(v) == v.k # "missing" /\ Truthy(v)

(***************************************************************************)
(* Tokens                                                                  *)
(***************************************************************************)
\* numerals and the number each denotes
NumeralValue ==
    [t \in {"0", "5", "10", "30", "32.0", "40.0", "-97.0", "-120.0", "1999", "2005", "500"} |->
        CASE t = "0" -> 0
          [] t = "5" -> 5
          [] t = "10" -> 10
          [] t = "30" -> 30
          [] t = "32.0" -> 32
          [] t = "40.0" -> 40
          [] t = "-97.0" -> 0 - 97
          [] t = "-120.0" -> 0 - 120
          [] t = "1999" -> 1999
          [] t = "2005" -> 2005
          [] t = "500" -> 500]

Numerals == DOMAIN NumeralValue
\* numerals written with a decimal point
Decimals == {"32.0", "40.0", "-97.0", "-120.0"}
\* numerals written with a sign
Signed == {"-97.0", "-120.0"}

\* str.lower() on one token
LowerTok(t) ==
    CASE t = "Full" -> "full"
      [] t = "Capacity" -> "capacity"
      [] t = "Right" -> "right"
      [] t = "Place" -> "place"
      [] t = "You're" -> "you're"
      [] t = "MW" -> "mw"
      [] t = "Tier" -> "tier"
      [] t = "III" -> "iii"
      [] t = "Built" -> "built"
      [] t = "Acme" -> "acme"
      [] t = "Dallas" -> "dallas"
      [] t = "One" -> "one"
      [] OTHER -> t

\* str.upper() on one token
UpperTok(t) ==
    CASE t = "iii" -> "III"
      [] t = "i" -> "I"
      [] OTHER -> t

\* str.lower()
Lower(s) == [i \in 1..Len(s) |-> LowerTok(s[i])]

\* `phrase in text`
Contains(text, phrase) ==
    \E i \in 0..(Len(text) - Len(phrase)) :
        \A j \in 1..Len(phrase) : text[i + j] = phrase[j]

\* str(n) for the numbers a payload carries
NumeralOf(x) == CHOOSE t \in Numerals \ Decimals : NumeralValue[t] = x

(***************************************************************************)
(* Coercions: the result is [st, v], st the exception raised or "ok"       *)
(***************************************************************************)
Ok(v) == [st |-> "ok", v |-> v]
Raise(e) == [st |-> e, v |-> None]

\* float(v)
ToFloat(v) ==
    CASE v.k = "num" -> Ok(Num(v.n))
      [] v.k = "str" -> IF Len(v.s) = 1 /\ v.s[1] \in Numerals
                        THEN Ok(Num(NumeralValue[v.s[1]]))
                        ELSE Raise("ValueError")
      [] OTHER -> Raise("TypeError")

\* int(v)
ToInt(v) ==
    CASE v.k = "num" -> Ok(Num(v.n))
      [] v.k = "str" -> IF Len(v.s) = 1 /\ v.s[1] \in Numerals \ Decimals
                        THEN Ok(Num(NumeralValue[v.s[1]]))
                        ELSE Raise("ValueError")
      [] OTHER -> Raise("TypeError")

(***************************************************************************)
(* The document a facility page parses to                                  *)
(*   payload : the __NEXT_DATA__ script. kind is "absent" (no such script, *)
(*             or an empty one), "malformed" (json.loads fails), "nodc"    *)
(*             (props.pageProps.dc is empty or no dict) or "dc"; dc holds  *)
(*             the values read from the dc object, Missing for a key (or   *)
(*             an enclosing meta_* / companies dict) that is not there.    *)
(*   geopos  : <meta name="geo.position"> content split on ';'             *)
(*   geolat, geolon : <meta name="geo.latitude">, <meta name="geo.longitude"> *)
(*   scripts : the texts of the <script> elements, in document order       *)
(*   body    : the other elements, in document order: [tag, cls, text]     *)
(***************************************************************************)
DcKeys == {"name", "latitude", "longitude", "totalmw", "area_building",
           "area_whitespace", "year_operational", "tier_designed", "company"}

NoDc == [f \in DcKeys |-> Missing]

NoPayload == [kind |-> "absent", dc |-> NoDc]

\* the dict `data` as scrape_data_center_page creates it (the fields no
\* later step reads or that are constants of the run are left out)
Fields == {"name", "operator", "latitude", "longitude", "power_capacity_mw",
           "building_size_sqft", "whitespace_sqft", "tier_rating",
           "year_operational"}

EmptyData == [f \in Fields |-> None]

(***************************************************************************)
(* Tier 1: the structured payload                                          *)
(* A tier's result is [d, st]: the record and "ok" or the exception that   *)
(* is propagating.                                                         *)
(***************************************************************************)
\* data[f] = float(v) if v is present and truthy (latitude, longitude)
SetCoord(r, f, v) ==
    IF r.st # "ok" \/ ~Present(v) THEN r
    ELSE LET c == ToFloat(v)
         IN IF c.st = "ok" THEN [r EXCEPT !.d[f] = c.v] ELSE [r EXCEPT !.st = c.st]

\* try: data[f] = float(v) / except (ValueError, TypeError): pass
TryFloat(d, f, v) ==
    IF v.k = "missing" THEN d
    ELSE LET c == ToFloat(v) IN IF c.st = "ok" THEN [d EXCEPT ![f] = c.v] ELSE d

\* try: data[f] = int(v) / except (ValueError, TypeError): pass
TryInt(d, f, v) ==
    IF v.k = "missing" THEN d
    ELSE LET c == ToInt(v) IN IF c.st = "ok" THEN [d EXCEPT ![f] = c.v] ELSE d

\* str(v) inside an f-string
TextOf(v) ==
    CASE v.k = "str" -> v.s
      [] v.k = "num" -> <<NumeralOf(v.n)>>
      [] OTHER -> <<"[...]">>

\* meta_power .. companies: no statement here lets an exception escape
Tier1Meta(d, dc) ==
    LET d1 == TryFloat(d, "power_capacity_mw", dc.totalmw)
        d2 == TryInt(d1, "building_size_sqft", dc.area_building)
        d3 == TryInt(d2, "whitespace_sqft", dc.area_whitespace)
        d4 == TryInt(d3, "year_operational", dc.year_operational)
        d5 == IF Present(dc.tier_designed)
              THEN [d4 EXCEPT !.tier_rating = Str(<<"TIER">> \o TextOf(dc.tier_designed))]
              ELSE d4
        d6 == IF dc.company.k # "missing"
              THEN [d5 EXCEPT !.operator = dc.company]
              ELSE d5
    IN d6

\* the except clause of the payload block: JSONDecodeError, KeyError,
\* AttributeError and TypeError are caught; anything else propagates
Tier1Caught(st) == st \in {"JSONDecodeError", "KeyError", "AttributeError", "TypeError"}

Tier1(d, p) ==
    IF p.kind # "dc" THEN [d |-> d, st |-> "ok"]
    ELSE LET r1 == [d |-> IF Present(p.dc.name) THEN [d EXCEPT !.name = p.dc.name] ELSE d,
                    st |-> "ok"]
             r2 == SetCoord(r1, "latitude", p.dc.latitude)
             r3 == SetCoord(r2, "longitude", p.dc.longitude)
             r4 == IF r3.st = "ok" THEN [r3 EXCEPT !.d = Tier1Meta(r3.d, p.dc)] ELSE r3
         IN IF Tier1Caught(r4.st) THEN [r4 EXCEPT !.st = "ok"] ELSE r4

(***************************************************************************)
(* Tier 2: HTML fallback for name and operator                             *)
(***************************************************************************)
NoElem == [tag |-> "", cls |-> "", text |-> <<>>]

\* whether a CSS selector selects an element
Selects(sel, e) ==
    CASE sel = "h1.datacenter-name" -> e.tag = "h1" /\ e.cls = "datacenter-name"
      [] sel = "h1" -> e.tag = "h1"
      [] sel = "a[href*=/company/]" -> e.tag = "a" /\ e.cls = "company-link"
      [] OTHER -> "." \o e.cls = sel

\* soup.select_one(sel): the first element in document order, or NoElem
select_one(body, sel) ==
    IF \E i \in 1..Len(body) : Selects(sel, body[i])
    THEN body[CHOOSE i \in 1..Len(body) :
                 /\ Selects(sel, body[i])
                 /\ \A j \in 1..(i - 1) : ~Selects(sel, body[j])]
    ELSE NoElem

name_selectors == <<"h1.datacenter-name", "h1", ".facility-name">>
operator_selectors == <<".provider-name", ".operator", ".company-name", "a[href*=/company/]">>

\* the test without .lower(): used to show that the rejection of
\* placeholders depends on the comparison ignoring case
NotErrorPageCaseSensitive(name_text) ==
    /\ ~Contains(name_text, <<"full", "capacity">>)
    /\ ~Contains(name_text, <<"right", "place">>)

\* the test on a heading's text: neither error phrase occurs in name_text.lower()
NotErrorPage(name_text) ==
    /\ ~Contains(Lower(name_text), <<"full", "capacity">>)
    /\ ~Contains(Lower(name_text), <<"right", "place">>)

\* the loop over name_selectors from selector i on: the name it sets, or None
RECURSIVE NameFromHtml(_, _)
NameFromHtml(body, i) ==
    IF i > Len(name_selectors) THEN None
    ELSE LET name_elem == select_one(body, name_selectors[i])
         IN IF name_elem # NoElem /\ NotErrorPage(name_elem.text)
            THEN Str(name_elem.text)
            ELSE NameFromHtml(body, i + 1)

\* the loop over operator_selectors from selector i on
RECURSIVE OperatorFromHtml(_, _)
OperatorFromHtml(body, i) ==
    IF i > Len(operator_selectors) THEN None
    ELSE LET operator_elem == select_one(body, operator_selectors[i])
         IN IF /\ operator_elem # NoElem
               /\ operator_elem.text # <<>>
               /\ operator_elem.text # <<"Follow on LinkedIn">>
            THEN Str(operator_elem.text)
            ELSE OperatorFromHtml(body, i + 1)

\* `if not data['name']:` and its loop
Tier2Name(d, body) ==
    IF Truthy(d.name) THEN d
    ELSE LET v == NameFromHtml(body, 1)
         IN IF v = None THEN d ELSE [d EXCEPT !.name = v]

\* `if not data['operator']:` and its loop
Tier2Operator(d, body) ==
    IF Truthy(d.operator) THEN d
    ELSE LET v == OperatorFromHtml(body, 1)
         IN IF v = None THEN d ELSE [d EXCEPT !.operator = v]

Tier2(d, body) == Tier2Operator(Tier2Name(d, body), body)

(***************************************************************************)
(* Tier 3: coordinate fallbacks                                            *)
(***************************************************************************)
\* try: latitude = float(a); longitude = float(b) / except ValueError: pass
SetPair(d, a, b) ==
    LET ca == ToFloat(a)
        cb == ToFloat(b)
    IN IF ca.st # "ok" THEN d
       ELSE IF cb.st # "ok" THEN [d EXCEPT !.latitude = ca.v]
       ELSE [d EXCEPT !.latitude = ca.v, !.longitude = cb.v]

\* Method 1: <meta name="geo.position" content="lat;lon">
Tier3Position(d, geopos) ==
    IF Truthy(d.latitude) \/ Len(geopos) # 2 THEN d
    ELSE SetPair(d, Str(geopos[1]), Str(geopos[2]))

\* Method 2: <meta name="geo.latitude">, <meta name="geo.longitude">
Tier3Separate(d, geolat, geolon) ==
    IF Truthy(d.latitude) \/ geolat.k = "missing" \/ geolon.k = "missing" THEN d
    ELSE SetPair(d, geolat, geolon)

\* re.search(label [:\s]* ([+-]?\d+\.\d+)): the numeral matched, "" if none
CoordMatch(script_text, labels) ==
    LET t == Lower(script_text)
        hit(i) == t[i] \in labels /\ t[i + 1] \in Decimals
    IN IF \E i \in 1..(Len(t) - 1) : hit(i)
       THEN t[1 + CHOOSE i \in 1..(Len(t) - 1) : hit(i) /\ \A j \in 1..(i - 1) : ~hit(j)]
       ELSE ""

\* a check that accepts every pair: used to show that the pairs stored
\* depend on the sanity check
InAnyBox(potential_lat, potential_lng) == TRUE

\* the sanity check on a pair found in a script
InTexasBox(potential_lat, potential_lng) ==
    /\ 25 <= potential_lat /\ potential_lat <= 37
    /\ 0 - 107 <= potential_lng /\ potential_lng <= 0 - 93

\* Method 3: the loop over the scripts from script i on
RECURSIVE Tier3Scripts(_, _, _)
Tier3Scripts(d, scripts, i) ==
    IF i > Len(scripts) THEN d
    ELSE LET lat_match == CoordMatch(scripts[i], {"lat"})
             lng_match == CoordMatch(scripts[i], {"lng", "lon"})
         IN IF /\ lat_match # ""
               /\ lng_match # ""
               /\ InTexasBox(NumeralValue[lat_match], NumeralValue[lng_match])
            THEN [d EXCEPT !.latitude = Num(NumeralValue[lat_match]),
                           !.longitude = Num(NumeralValue[lng_match])]
            ELSE Tier3Scripts(d, scripts, i + 1)

Tier3(d, dm) ==
    LET d1 == Tier3Position(d, dm.geopos)
        d2 == Tier3Separate(d1, dm.geolat, dm.geolon)
    IN IF Truthy(d2.latitude) THEN d2 ELSE Tier3Scripts(d2, dm.scripts, 1)

(***************************************************************************)
(* Tier 4: text mining over the specification-like elements                *)
(***************************************************************************)
\* soup.select('.spec-item, .specification, tr, li, p, div')
IsSpecElement(e) ==
    \/ e.tag \in {"tr", "li", "p", "div"}
    \/ e.cls \in {"spec-item", "specification"}

\* what [\d,]+ matches at the end of a token that a unit follows
DigitsAndCommas(t) ==
    CASE t \in Numerals \ Decimals -> t
      [] t \in Decimals -> "0"
      [] t \in {",", "1,200"} -> t
      [] OTHER -> ""

\* int(group.replace(',', ''))
IntOfGroup(g) ==
    CASE g \in Numerals \ Decimals -> Ok(Num(NumeralValue[g]))
      [] g = "1,200" -> Ok(Num(1200))
      [] OTHER -> Raise("ValueError")

\* what \d+(?:\.\d+)? matches at the end of a numeral: its unsigned value
Unsigned(t) ==
    IF t = "1,200" THEN 200
    ELSE IF NumeralValue[t] < 0 THEN 0 - NumeralValue[t] ELSE NumeralValue[t]

\* the position of the leftmost token at which hit holds, 0 if none
Leftmost(n, hit(_)) ==
    IF \E i \in 1..n : hit(i)
    THEN CHOOSE i \in 1..n : hit(i) /\ \A j \in 1..(i - 1) : ~hit(j)
    ELSE 0

\* (\d+(?:\.\d+)?)\s*mw
power_match(text) ==
    LET hit(i) == text[i] \in Numerals \cup {"1,200"} /\ text[i + 1] = "mw"
    IN Leftmost(Len(text) - 1, hit)

\* ([\d,]+)\s*(?:sq\.?\s*ft|sqft|square\s*feet)
size_match(text) ==
    LET hit(i) == /\ DigitsAndCommas(text[i]) # ""
                  /\ text[i + 1] \in {"sq ft", "sqft", "square feet"}
    IN Leftmost(Len(text) - 1, hit)

\* whitespace[:\s]*([\d,]+)\s*(?:sq\.?\s*ft|sqft)
ws_match(text) ==
    LET hit(i) == /\ text[i] = "whitespace"
                  /\ text[i + 1] \in (Numerals \ Decimals) \cup {",", "1,200"}
                  /\ text[i + 2] \in {"sq ft", "sqft"}
    IN Leftmost(Len(text) - 2, hit)

\* what [IViv1-4]+ matches at the start of a token
TierGroup(t) ==
    CASE t = "iii" -> "iii"
      [] t = "is" -> "i"
      [] t = "10" -> "1"
      [] t = "30" -> "3"
      [] t = "1999" -> "1"
      [] t = "2005" -> "2"
      [] t = "1,200" -> "1"
      [] OTHER -> ""

\* tier\s*([IViv1-4]+)
tier_match(text) ==
    LET hit(i) == text[i] = "tier" /\ TierGroup(text[i + 1]) # ""
    IN Leftmost(Len(text) - 1, hit)

\* what (19|20)\d{2} captures in group 1 at the start of a token
YearGroup(t) ==
    CASE t = "1999" -> "19"
      [] t = "2005" -> "20"
      [] OTHER -> ""

\* int() of the two digits (19|20) captures
IntOfYearGroup(g) == IF g = "19" THEN 19 ELSE 20

\* (?:year|opened|operational|built)[:\s]*(19|20)\d{2}
year_match(text) ==
    LET hit(i) == /\ text[i] \in {"year", "opened", "operational", "built"}
                  /\ YearGroup(text[i + 1]) # ""
    IN Leftmost(Len(text) - 1, hit)

\* the five blocks of the loop body, in order, on one element's text;
\* r is [d, st] and a block is skipped once an exception propagates
MinePower(r, text) ==
    IF r.st # "ok" \/ Truthy(r.d.power_capacity_mw) \/ power_match(text) = 0 THEN r
    ELSE [r EXCEPT !.d.power_capacity_mw = Num(Unsigned(text[power_match(text)]))]

MineSize(r, text) ==
    IF r.st # "ok" \/ Truthy(r.d.building_size_sqft) \/ size_match(text) = 0 THEN r
    ELSE LET c == IntOfGroup(DigitsAndCommas(text[size_match(text)]))
         IN IF c.st = "ok" THEN [r EXCEPT !.d.building_size_sqft = c.v]
            ELSE [r EXCEPT !.st = c.st]

MineWhitespace(r, text) ==
    IF r.st # "ok" \/ Truthy(r.d.whitespace_sqft) \/ ws_match(text) = 0 THEN r
    ELSE LET c == IntOfGroup(text[ws_match(text) + 1])
         IN IF c.st = "ok" THEN [r EXCEPT !.d.whitespace_sqft = c.v]
            ELSE [r EXCEPT !.st = c.st]

MineTier(r, text) ==
    IF r.st # "ok" \/ Truthy(r.d.tier_rating) \/ tier_match(text) = 0 THEN r
    ELSE [r EXCEPT !.d.tier_rating =
              Str(<<UpperTok(TierGroup(text[tier_match(text) + 1]))>>)]

MineYear(r, text) ==
    IF r.st # "ok" \/ Truthy(r.d.year_operational) \/ year_match(text) = 0 THEN r
    ELSE [r EXCEPT !.d.year_operational =
              Num(IntOfYearGroup(YearGroup(text[year_match(text) + 1])))]

\* one iteration of `for elem in spec_elements`
MineElement(r, e) ==
    LET text == Lower(e.text)
    IN MineYear(MineTier(MineWhitespace(MineSize(MinePower(r, text), text), text), text), text)

\* the loop over the body from element i on
RECURSIVE Tier4Loop(_, _, _)
Tier4Loop(r, body, i) ==
    IF i > Len(body) \/ r.st # "ok" THEN r
    ELSE Tier4Loop(IF IsSpecElement(body[i]) THEN MineElement(r, body[i]) ELSE r, body, i + 1)

Tier4(d, body) == Tier4Loop([d |-> d, st |-> "ok"], body, 1)

(***************************************************************************)
(* scrape_data_center_page on a fetched document: [d, st], st = "ok" when  *)
(* the record d is returned, else the exception that leaves the function   *)
(***************************************************************************)
ExtractRecord(dm) ==
    LET r1 == Tier1(EmptyData, dm.payload)
    IN IF r1.st # "ok" THEN r1
       ELSE Tier4(Tier3(Tier2(r1.d, dm.body), dm), dm.body)

(***************************************************************************)
(* The documents checked: three families, each wide in the part of the     *)
(* page one group of tiers reads and narrow in the rest                    *)
(***************************************************************************)
MaxKeys == 2        \* keys present in the dc object (payload family)
MaxElems == 2       \* elements in the body (HTML family)
MaxScripts == 2     \* <script> elements (coordinate family)

El(tag, cls, text) == [tag |-> tag, cls |-> cls, text |-> text]

\* JSON values a dc key may carry: null, 0, 5, "", "Acme", a list
JsonValues == {None, Num(0), Num(5), Str(<<>>), Str(<<"Acme">>), Obj}

DcWith(S) ==
    {[f \in DcKeys |-> IF f \in S THEN g[f] ELSE Missing] : g \in [S -> JsonValues]}

\* the dc objects of at most n keys
DcObjects(n) == UNION {DcWith(S) : S \in {T \in SUBSET DcKeys : Cardinality(T) <= n}}

Dc(f, v) == [kind |-> "dc", dc |-> [NoDc EXCEPT ![f] = v]]

NoMeta == [geopos |-> <<>>, geolat |-> Missing, geolon |-> Missing, scripts |-> <<>>]

Page(payload, meta, body) ==
    [payload |-> payload, geopos |-> meta.geopos, geolat |-> meta.geolat,
     geolon |-> meta.geolon, scripts |-> meta.scripts, body |-> body]

\* a page whose text and meta tags offer a value for every field
RichBody ==
    <<El("h1", "", <<"Acme", "Dallas", "One">>),
      El("p", "", <<"10", "MW">>),
      El("li", "", <<"Whitespace", "500", "sqft">>),
      El("tr", "", <<"Tier", "III">>),
      El("p", "", <<"Built", "1999">>),
      El("div", "operator", <<"Acme">>)>>

RichMeta == [NoMeta EXCEPT !.geopos = <<<<"32.0">>, <<"-97.0">>>>]

\* a page whose text holds a size made of a comma only
CommaBody == <<El("p", "", <<",", "sqft">>)>>

\* every payload on a page with nothing else, and the payloads of at most
\* one key on the pages with text
PayloadDocs(n) ==
    {Page([kind |-> "dc", dc |-> dc], NoMeta, <<>>) : dc \in DcObjects(n)}
    \cup {Page([kind |-> "dc", dc |-> dc], m[1], m[2]) :
            dc \in DcObjects(1),
            m \in {<<RichMeta, RichBody>>, <<NoMeta, CommaBody>>}}

Elements ==
    {El("h1", "", <<"Acme", "Dallas", "One">>),
     El("h1", "", <<"Full", "Capacity">>),
     El("h1", "", <<>>),
     El("h1", "datacenter-name", <<"Acme">>),
     El("h1", "datacenter-name", <<"You're", "in", "the", "Right", "Place">>),
     El("div", "facility-name", <<"Acme", "One">>),
     El("span", "facility-name", <<"full", "capacity">>),
     El("span", "provider-name", <<>>),
     El("a", "company-link", <<"Follow on LinkedIn">>),
     El("div", "operator", <<"Acme">>),
     El("p", "", <<"10", "MW">>),
     El("p", "", <<"0", "mw">>),
     El("p", "", <<",", "sqft">>),
     El("li", "", <<"Whitespace", "1,200", "sqft">>),
     El("tr", "", <<"Tier", "III", "Built", "2005">>)}

SeqsUpTo(S, n) == UNION {[1..m -> S] : m \in 0..n}

HtmlDocs(n) ==
    {Page(p, NoMeta, body) :
        p \in {NoPayload, [kind |-> "malformed", dc |-> NoDc], [kind |-> "nodc", dc |-> NoDc],
               Dc("name", Str(<<"Acme">>)), Dc("totalmw", Num(0))},
        body \in SeqsUpTo(Elements, n)}

ScriptTexts ==
    {<<"lat", "32.0", "lng", "-97.0">>,
     <<"lat", "40.0", "lng", "-120.0">>,
     <<"LON", "-97.0", "Lat", "30", "lat", "32.0">>,
     <<"lat", "32.0">>,
     <<"var", "x">>}

Metas(n) ==
    {[geopos |-> g, geolat |-> l[1], geolon |-> l[2], scripts |-> sc] :
        g \in {<<>>, <<<<"32.0">>, <<"-97.0">>>>, <<<<"32.0">>, <<"abc">>>>,
               <<<<"0">>, <<"-97.0">>>>, <<<<"32.0">>>>},
        l \in {<<Missing, Missing>>, <<Str(<<"40.0">>), Str(<<"-120.0">>)>>,
               <<Str(<<"32.0">>), Missing>>, <<Str(<<>>), Str(<<"-97.0">>)>>},
        sc \in SeqsUpTo(ScriptTexts, n)}

CoordDocs(n) ==
    {Page(p, m, <<>>) :
        p \in {NoPayload, Dc("latitude", Num(5)), Dc("longitude", Num(5))},
        m \in Metas(n)}

Docs(keys, elems, scripts) == PayloadDocs(keys) \cup HtmlDocs(elems) \cup CoordDocs(scripts)

(***************************************************************************)
(* One call of scrape_data_center_page on a fetched document, tier by tier *)
(***************************************************************************)
RunIdle ==
    /\ pc = "idle"
    /\ args = [mode |-> "none", chunk_size |-> 1, start_index |-> 0, max_datacenters |-> 0]
    /\ site = [texas |-> [tables |-> <<>>, links |-> <<>>], city |-> <<>>]
    /\ city_urls = <<>>
    /\ cities_done = 0
    /\ per_city = <<>>
    /\ unique_urls = <<>>
    /\ dc_urls = <<>>
    /\ idx = 0
    /\ all_data = <<>>
    /\ attempts = <<>>
    /\ files = <<>>
    /\ writes = <<>>
    /\ net = <<>>
    /\ bad_urls = <<>>
    /\ good_records = <<>>
    /\ fixed_data = <<>>
    /\ still_bad = <<>>
    /\ merges = <<>>
    /\ invocation = 1

PageInit ==
    /\ ppc = "fetched"
    /\ doc \in Docs(MaxKeys, MaxElems, MaxScripts)
    /\ data = EmptyData
    /\ snap = <<>>
    /\ RunIdle

\* a tier ends: its record is kept, and the call goes on or raises
Advance(r, next) ==
    /\ data' = r.d
    /\ snap' = Append(snap, r.d)
    /\ ppc' = IF r.st = "ok" THEN next ELSE "raised"
    /\ UNCHANGED <<doc, rvars>>

DoTier1 == ppc = "fetched" /\ Advance(Tier1(data, doc.payload), "tier1")

DoTier2 == ppc = "tier1" /\ Advance([d |-> Tier2(data, doc.body), st |-> "ok"], "tier2")

DoTier3 == ppc = "tier2" /\ Advance([d |-> Tier3(data, doc), st |-> "ok"], "tier3")

DoTier4 == ppc = "tier3" /\ Advance(Tier4(data, doc.body), "returned")

PageNext == DoTier1 \/ DoTier2 \/ DoTier3 \/ DoTier4

PageSpec == PageInit /\ [][PageNext]_vars

(***************************************************************************)
(* URLs and hrefs                                                          *)
(* A URL is [segs, slash]: its path segments and whether it ends in '/';   *)
(* an href also says whether it is written with scheme and host (abs).     *)
(***************************************************************************)
Url(segs, slash) == [segs |-> segs, slash |-> slash]
Href(abs, segs, slash) == [abs |-> abs, segs |-> segs, slash |-> slash]

\* `'/x/' in u`
HasSegment(u, x) ==
    \E i \in 1..Len(u.segs) : u.segs[i] = x /\ (i < Len(u.segs) \/ u.slash)

\* `'/usa/texas/' in href`
UnderTexas(h) ==
    \E i \in 1..(Len(h.segs) - 1) :
        h.segs[i] = "usa" /\ h.segs[i + 1] = "texas" /\ (i + 1 < Len(h.segs) \/ h.slash)

\* href.count('/')
SlashCount(h) ==
    (IF h.abs THEN 2 ELSE 0) + Len(h.segs) + (IF h.slash THEN 1 ELSE 0)

\* urljoin(self.base_url, href)
urljoin(h) == Url(h.segs, h.slash)

\* `x not in list`
NotIn(x, list) == \A i \in 1..Len(list) : list[i] # x

texas_url == Url(<<"usa", "texas">>, TRUE)

(***************************************************************************)
(* get_page                                                                *)
(***************************************************************************)
default_delay == 30

\* a denylist without /c/: used to show that the denylist property depends
\* on every entry
disallowed_paths_without_c == {"ui", "api", "visit", "as", "legal"}

disallowed_paths == {"ui", "api", "visit", "as", "legal", "c"}

Disallowed(url) == \E path \in disallowed_paths : HasSegment(url, path)

CallEv(url) == [e |-> "call", url |-> url, ok |-> FALSE, d |-> 0]
SleepEv(d) == [e |-> "sleep", url |-> Url(<<>>, FALSE), ok |-> FALSE, d |-> d]
RequestEv(url, ok) == [e |-> "request", url |-> url, ok |-> ok, d |-> 0]

\* a get_page that sleeps after its request instead of before it: used to
\* show that the throttling property depends on the order
GetPageEventsSleepingAfter(url, ok) ==
    IF Disallowed(url) THEN <<CallEv(url)>>
    ELSE <<CallEv(url), RequestEv(url, ok), SleepEv(default_delay)>>

\* what one get_page(url) does, the request succeeding or not
GetPageEvents(url, ok) ==
    IF Disallowed(url) THEN <<CallEv(url)>>
    ELSE <<CallEv(url), SleepEv(default_delay), RequestEv(url, ok)>>

\* whether get_page(url) returns a document
GetPageReturns(url, ok) == ~Disallowed(url) /\ ok

(***************************************************************************)
(* Discovery                                                               *)
(***************************************************************************)
\* the test both branches of get_texas_city_urls apply to a link
IsCityLink(h) ==
    /\ UnderTexas(h) /\ SlashCount(h) = 4 /\ h.slash
    /\ h \notin {Href(FALSE, <<"usa", "texas">>, TRUE),
                 Href(FALSE, <<"usa", "texas", "quote">>, TRUE)}

\* the test get_datacenters_from_city applies to a link
IsDatacenterLink(h) ==
    /\ UnderTexas(h) /\ SlashCount(h) >= 5
    /\ ~\E skip \in {"quote", "visit", "api", "ui", "as", "legal"} : HasSegment(h, skip)

\* the test of the direct approach
IsDirectLink(h) == UnderTexas(h) /\ SlashCount(h) >= 5

\* for link in links: if test(href): full_url = urljoin(..);
\*     if full_url not in acc: acc.append(full_url)
\* (test names which of the three link tests the loop applies)
LinkTest(test, h) ==
    CASE test = "city" -> IsCityLink(h)
      [] test = "datacenter" -> IsDatacenterLink(h)
      [] test = "direct" -> IsDirectLink(h)

RECURSIVE CollectLinks(_, _, _, _)
CollectLinks(acc, links, i, test) ==
    IF i > Len(links) THEN acc
    ELSE CollectLinks(IF LinkTest(test, links[i]) /\ NotIn(urljoin(links[i]), acc)
                      THEN Append(acc, urljoin(links[i])) ELSE acc,
                      links, i + 1, test)

\* for table in tables: for link in table.find_all('a')
RECURSIVE CollectTables(_, _, _)
CollectTables(acc, tables, i) ==
    IF i > Len(tables) THEN acc
    ELSE CollectTables(CollectLinks(acc, tables[i], 1, "city"), tables, i + 1)

\* get_texas_city_urls on the fetched Texas page
CityUrlsOf(page) ==
    IF page.tables = <<>> THEN CollectLinks(<<>>, page.links, 1, "city")
    ELSE CollectTables(<<>>, page.tables, 1)

\* get_datacenters_from_city on the fetched city page
DatacentersOf(links) == CollectLinks(<<>>, links, 1, "datacenter")

\* the direct approach on the fetched Texas page
DirectUrlsOf(page) == CollectLinks(<<>>, page.links, 1, "direct")

\* all_dc_urls.extend(city_dcs) for every city
RECURSIVE Extend(_, _)
Extend(lists, i) ==
    IF i > Len(lists) THEN <<>> ELSE lists[i] \o Extend(lists, i + 1)

\* a loop that keeps every URL: used to show that the uniqueness of the
\* result depends on the `seen` set
KeepDuplicates(unique, seen, urls, i) == urls

\* the loop with the `seen` set: remove duplicates while preserving order
RECURSIVE RemoveDuplicates(_, _, _, _)
RemoveDuplicates(unique, seen, urls, i) ==
    IF i > Len(urls) THEN unique
    ELSE IF urls[i] \in seen THEN RemoveDuplicates(unique, seen, urls, i + 1)
    ELSE RemoveDuplicates(Append(unique, urls[i]), seen \cup {urls[i]}, urls, i + 1)

UniqueUrls(lists) == RemoveDuplicates(<<>>, {}, Extend(lists, 1), 1)

(***************************************************************************)
(* scrape_all_texas                                                        *)
(***************************************************************************)
\* a test that keeps every returned record: used to show that the content
\* of the checkpoints depends on the test of the name
KeepsEveryRecord(outcome, d) == outcome = "record"

\* `if dc_data and dc_data['name']`: outcome is "none" when
\* scrape_data_center_page returned None, "record" when it returned d
Keeps(outcome, d) == outcome = "record" /\ Truthy(d.name)

\* `if (idx + 1) % chunk_size == 0`
SaveChunkAt(i, chunk_size) == (i + 1) % chunk_size = 0

\* files of the output directory
ChunkTag(k) == <<"chunk", k>>
FinalTag == <<"final", 0>>
UrlsTag == <<"urls", 0>>

\* the directory after a file is written (created or overwritten)
WriteFile(dir, tag, rows) ==
    [t \in DOMAIN dir \cup {tag} |-> IF t = tag THEN rows ELSE dir[t]]

\* a final save that is skipped when nothing was kept: used to show that
\* the final file property depends on the save being unconditional
FinalSaveIfAny(dir, rows) == IF rows = <<>> THEN dir ELSE WriteFile(dir, FinalTag, rows)

\* df = pd.DataFrame(all_data); df.to_csv(final_file)
FinalSave(dir, rows) == WriteFile(dir, FinalTag, rows)

\* the lines "idx,url" of the URL list file
UrlList(urls) == [i \in 1..Len(urls) |-> [idx |-> i - 1, url |-> urls[i]]]

\* dc_urls[:max_datacenters] under `if max_datacenters:`
Capped(urls, max_datacenters) ==
    IF max_datacenters # 0 /\ max_datacenters < Len(urls)
    THEN SubSeq(urls, 1, max_datacenters) ELSE urls

\* dc_urls[start_index:] under `if start_index > 0:`
Resumed(urls, start_index) ==
    IF start_index > 0 THEN SubSeq(urls, start_index + 1, Len(urls)) ELSE urls

\* the links of a city page
CityLinks(url) == IF url \in DOMAIN site.city THEN site.city[url] ELSE <<>>

\* get_texas_datacenter_urls returns `found`; in a scrape_all_texas run the
\* statements up to the loop follow (and the final save when the loop has
\* nothing to do)
DiscoveryReturns(found) ==
    /\ unique_urls' = found
    /\ UNCHANGED <<all_data, attempts>>
    /\ IF args.mode = "discover"
       THEN pc' = "discovered" /\ UNCHANGED <<dc_urls, idx, files, writes>>
       ELSE IF found = <<>>
       THEN pc' = "done" /\ UNCHANGED <<dc_urls, idx, files, writes>>
       ELSE LET todo == Resumed(Capped(found, args.max_datacenters), args.start_index)
                listed == WriteFile(files, UrlsTag, UrlList(found))
            IN /\ dc_urls' = todo
               /\ idx' = args.start_index
               /\ IF todo = <<>>
                  THEN /\ pc' = "done"
                       /\ files' = FinalSave(listed, all_data)
                       /\ writes' = writes \o <<UrlsTag, FinalTag>>
                  ELSE /\ pc' = "loop"
                       /\ files' = listed
                       /\ writes' = Append(writes, UrlsTag)

\* get_texas_city_urls: one fetch of the Texas page
GetTexasCityUrls ==
    /\ pc = "start"
    /\ \E ok \in BOOLEAN :
        LET found == IF GetPageReturns(texas_url, ok) THEN CityUrlsOf(site.texas) ELSE <<>>
        IN /\ net' = net \o GetPageEvents(texas_url, ok)
           /\ city_urls' = found
           /\ pc' = IF found = <<>> THEN "direct" ELSE "cities"
    /\ UNCHANGED <<pvars, mvars, rsvars, args, site, cities_done, per_city, unique_urls, dc_urls,
                   idx, all_data, attempts, files, writes>>

\* the direct approach of get_texas_datacenter_urls: a second fetch
DirectApproach ==
    /\ pc = "direct"
    /\ \E ok \in BOOLEAN :
        /\ net' = net \o GetPageEvents(texas_url, ok)
        /\ DiscoveryReturns(IF GetPageReturns(texas_url, ok)
                            THEN DirectUrlsOf(site.texas) ELSE <<>>)
    /\ UNCHANGED <<pvars, mvars, rsvars, args, site, city_urls, cities_done, per_city>>

\* one iteration of `for city_url in city_urls`, and after the last one the
\* removal of duplicates and the return
GetDatacentersFromCity ==
    /\ pc = "cities"
    /\ \E ok \in BOOLEAN :
        LET city_url == city_urls[cities_done + 1]
            city_dcs == IF GetPageReturns(city_url, ok)
                        THEN DatacentersOf(CityLinks(city_url)) ELSE <<>>
        IN /\ net' = net \o GetPageEvents(city_url, ok)
           /\ per_city' = Append(per_city, city_dcs)
           /\ cities_done' = cities_done + 1
           /\ IF cities_done + 1 = Len(city_urls)
              THEN DiscoveryReturns(UniqueUrls(Append(per_city, city_dcs)))
              ELSE UNCHANGED <<pc, unique_urls, dc_urls, idx, all_data, attempts,
                               files, writes>>
    /\ UNCHANGED <<pvars, mvars, rsvars, args, site, city_urls>>

\* the pages a facility URL may serve
NamedPage == Page(Dc("name", Str(<<"Acme">>)), NoMeta, <<>>)
PlaceholderPage == Page(NoPayload, NoMeta, <<El("h1", "", <<"Full", "Capacity">>)>>)
RaisingPage == Page(Dc("latitude", Str(<<"Acme">>)), NoMeta, <<>>)
ErrorNamedPage == Page(Dc("name", Str(<<"Full", "Capacity">>)), NoMeta, <<>>)
RightSpotPage == Page(Dc("name", Str(<<"You're", "in", "the", "Right">>)), NoMeta, <<>>)
FacilityPages == {NamedPage, PlaceholderPage, RaisingPage, ErrorNamedPage, RightSpotPage}

\* one iteration of the loop of scrape_all_texas: scrape_data_center_page,
\* the append, the checkpoint, and after the last URL the final save
ScrapeNext ==
    /\ pc = "loop"
    /\ \E ok \in BOOLEAN, dm \in FacilityPages :
       \E dc_url \in {dc_urls[idx - args.start_index + 1]} :
       \E r \in {ExtractRecord(dm)} :
       \E outcome \in {IF ~GetPageReturns(dc_url, ok) THEN "none"
                       ELSE IF r.st = "ok" THEN "record" ELSE "raised"} :
       \E d \in {IF outcome = "record" THEN r.d ELSE EmptyData} :
       \E kept \in {IF Keeps(outcome, d)
                    THEN Append(all_data, [url |-> dc_url, data |-> d]) ELSE all_data} :
       \E last \in {idx - args.start_index + 1 = Len(dc_urls)} :
       \E save \in {SaveChunkAt(idx, args.chunk_size)} :
       \E chunked \in {IF save THEN WriteFile(files, ChunkTag(idx + 1), kept) ELSE files} :
           /\ net' = net \o GetPageEvents(dc_url, ok)
           /\ attempts' = Append(attempts, [k |-> idx + 1, url |-> dc_url,
                                            outcome |-> outcome, data |-> d])
           /\ IF outcome = "raised"
              THEN pc' = "raised" /\ UNCHANGED <<idx, all_data, files, writes>>
              ELSE /\ all_data' = kept
                   /\ idx' = idx + 1
                   /\ pc' = IF last THEN "done" ELSE "loop"
                   /\ files' = IF last THEN FinalSave(chunked, kept) ELSE chunked
                   /\ writes' = writes \o (IF save THEN <<ChunkTag(idx + 1)>> ELSE <<>>)
                                       \o (IF last THEN <<FinalTag>> ELSE <<>>)
    /\ UNCHANGED <<pvars, mvars, rsvars, args, site, city_urls, cities_done, per_city, unique_urls, dc_urls>>

(***************************************************************************)
(* rescrape_bad_urls                                                       *)
(***************************************************************************)
CompleteTag == <<"complete", 0>>
FixedTag == <<"fixed", 0>>
CleanTag == <<"final_clean", 0>>
FixedCheckpointTag(k) == <<"fixed_checkpoint", k>>

checkpoint_every == 50

error_patterns ==
    {<<"full", "capacity">>, <<"right", "place">>, <<"you're", "in", "the", "right">>}

\* df['name'].str.contains('|'.join(error_patterns), case=False, na=False)
error_mask(row) ==
    /\ row.data.name.k = "str"
    /\ \E pattern \in error_patterns : Contains(Lower(row.data.name.s), pattern)

\* a mask that selects every row: used to show that the clean dataset
\* depends on the bad rows being left out of good_records
every_row_mask(row) == TRUE

\* ~error_mask
not_error_mask(row) == ~error_mask(row)

identify_bad_records(df) ==
    [bad_records |-> SelectSeq(df, error_mask),
     good_records |-> SelectSeq(df, not_error_mask)]

\* bad_records['url'].tolist()
UrlColumn(rows) == [i \in 1..Len(rows) |-> rows[i].url]

\* the test of the re-scraped name: 'full capacity' in name.lower() or
\* 'right place' in name.lower()
StillErrorPage(name) ==
    \/ Contains(Lower(name.s), <<"full", "capacity">>)
    \/ Contains(Lower(name.s), <<"right", "place">>)

\* drop_duplicates(subset=['url'], keep='first'): used to show that the
\* row a merge keeps depends on which duplicate is dropped
RECURSIVE DropDuplicatesKeepFirst(_, _)
DropDuplicatesKeepFirst(rows, i) ==
    IF i > Len(rows) THEN <<>>
    ELSE (IF \E j \in 1..(i - 1) : rows[j].url = rows[i].url
          THEN <<>> ELSE <<rows[i]>>) \o DropDuplicatesKeepFirst(rows, i + 1)

\* drop_duplicates(subset=['url'], keep='last')
RECURSIVE DropDuplicatesKeepLast(_, _)
DropDuplicatesKeepLast(rows, i) ==
    IF i > Len(rows) THEN <<>>
    ELSE (IF \E j \in (i + 1)..Len(rows) : rows[j].url = rows[i].url
          THEN <<>> ELSE <<rows[i]>>) \o DropDuplicatesKeepLast(rows, i + 1)

\* rescrape_bad_urls up to the loop: the CSV, the bad rows, the prompt
RescrapeStart ==
    /\ pc = "rescrape"
    /\ IF CompleteTag \notin DOMAIN files
       THEN pc' = "done" /\ UNCHANGED <<bad_urls, good_records>>
       ELSE \E split \in {identify_bad_records(files[CompleteTag])} :
            /\ good_records' = split.good_records
            /\ IF split.bad_records = <<>>
               THEN pc' = "done" /\ UNCHANGED bad_urls
               ELSE /\ bad_urls' = UrlColumn(split.bad_records)
                    /\ \E response \in {"yes", "no"} :
                        pc' = IF response # "yes" THEN "done" ELSE "rescraping"
    /\ UNCHANGED <<pvars, mvars, args, site, city_urls, cities_done, per_city, unique_urls,
                   dc_urls, idx, all_data, attempts, files, writes, net,
                   fixed_data, still_bad>>

\* one iteration of the loop of rescrape_bad_urls, and after the last URL
\* the saving of the fixed and the clean dataset
RescrapeNext ==
    /\ pc = "rescraping"
    /\ \E ok \in BOOLEAN, dm \in FacilityPages :
       \E url \in {bad_urls[idx + 1]} :
       \E r \in {ExtractRecord(dm)} :
       \E outcome \in {IF ~GetPageReturns(url, ok) THEN "none"
                       ELSE IF r.st # "ok" THEN "raised"
                       ELSE IF Truthy(r.d.name) /\ r.d.name.k # "str" THEN "raised"
                       ELSE "record"} :
       \E d \in {IF outcome = "record" THEN r.d ELSE EmptyData} :
       \E is_fixed \in {Keeps(outcome, d) /\ ~StillErrorPage(d.name)} :
       \E fixed \in {IF is_fixed THEN Append(fixed_data, [url |-> url, data |-> d])
                     ELSE fixed_data} :
       \E last \in {idx + 1 = Len(bad_urls)} :
       \E save \in {(idx + 1) % checkpoint_every = 0} :
       \E saved \in {IF save THEN WriteFile(files, FixedCheckpointTag(idx + 1), fixed)
                     ELSE files} :
           /\ net' = net \o GetPageEvents(url, ok)
           /\ attempts' = Append(attempts, [k |-> idx + 1, url |-> url,
                                            outcome |-> outcome, data |-> d])
           /\ IF outcome = "raised"
              THEN pc' = "raised" /\ UNCHANGED <<idx, fixed_data, still_bad, files, writes>>
              ELSE /\ fixed_data' = fixed
                   /\ still_bad' = IF is_fixed THEN still_bad ELSE Append(still_bad, url)
                   /\ idx' = idx + 1
                   /\ pc' = IF last THEN "done" ELSE "rescraping"
                   /\ files' = IF last /\ fixed # <<>>
                               THEN WriteFile(WriteFile(saved, FixedTag, fixed), CleanTag,
                                        DropDuplicatesKeepLast(good_records \o fixed, 1))
                               ELSE saved
                   /\ writes' = writes
                        \o (IF save THEN <<FixedCheckpointTag(idx + 1)>> ELSE <<>>)
                        \o (IF last /\ fixed # <<>> THEN <<FixedTag, CleanTag>> ELSE <<>>)
    /\ UNCHANGED <<pvars, mvars, args, site, city_urls, cities_done, per_city, unique_urls,
                   dc_urls, all_data, bad_urls, good_records>>

(***************************************************************************)
(* merge_chunks                                                            *)
(***************************************************************************)
MaxMerges == 2      \* calls of merge_chunks on one directory
MaxFileRows == 2    \* rows of a checkpoint file merge_chunks reads

MergedTag == <<"merged", 0>>

\* the decimal digits of a progress index, as the file name spells them
RECURSIVE Digits(_)
Digits(n) == IF n < 10 THEN <<n>> ELSE Append(Digits(n \div 10), n % 10)

\* Python's string order on the names prefix_chunk_<a>.csv and
\* prefix_chunk_<b>.csv: the first differing character decides, and '.'
\* sorts before every digit
NameBefore(a, b) ==
    LET da == Digits(a)
        db == Digits(b)
        same(i) == \A j \in 1..i : da[j] = db[j]
    IN \/ \E i \in 1..Len(da) : i <= Len(db) /\ same(i - 1) /\ da[i] < db[i]
       \/ Len(da) < Len(db) /\ same(Len(da))

\* sorted(glob.glob(prefix_chunk_*.csv))
chunk_files(dir) ==
    LET found == {t \in DOMAIN dir : t[1] = "chunk"}
    IN [i \in 1..Cardinality(found) |->
            CHOOSE t \in found : Cardinality({u \in found : NameBefore(u[2], t[2])}) = i - 1]

\* a cell to_csv writes as the empty string
EmptyCell(v) == v = None \/ v = Str(<<>>)

\* a column read_csv infers to be numeric: every cell is empty or a number
NumericColumn(rows, f) ==
    \A i \in 1..Len(rows) :
        LET v == rows[i].data[f]
        IN EmptyCell(v) \/ v.k = "num" \/ (v.k = "str" /\ Len(v.s) = 1 /\ v.s[1] \in Numerals)

\* pd.read_csv on the rows to_csv wrote: an empty cell is read as NaN, and
\* the numerals of a numeric column as numbers
read_csv(rows) ==
    [i \in 1..Len(rows) |->
        [url |-> rows[i].url,
         data |-> [f \in Fields |->
                      LET v == rows[i].data[f]
                      IN IF EmptyCell(v) THEN None
                         ELSE IF v.k = "str" /\ NumericColumn(rows, f)
                         THEN Num(NumeralValue[v.s[1]])
                         ELSE v]]]

\* pd.concat(dfs) of the frames read from chunk_files[i..]
RECURSIVE ConcatFrames(_, _, _)
ConcatFrames(dir, names, i) ==
    IF i > Len(names) THEN <<>>
    ELSE read_csv(dir[names[i]]) \o ConcatFrames(dir, names, i + 1)

\* a to_csv that appends to the file it finds: used to show that the
\* idempotence of the merge depends on the merged file being replaced
SaveMergedAppending(dir, combined) ==
    WriteFile(dir, MergedTag,
              (IF MergedTag \in DOMAIN dir THEN dir[MergedTag] ELSE <<>>) \o combined)

\* combined.to_csv(output_file, index=False)
SaveMerged(dir, combined) == WriteFile(dir, MergedTag, combined)

\* the merged file as a merge_chunks call left it
MergedFile(dir) ==
    IF MergedTag \in DOMAIN dir THEN [written |-> TRUE, rows |-> dir[MergedTag]]
    ELSE [written |-> FALSE, rows |-> <<>>]

\* one call of merge_chunks; a checkpoint file without rows has no header
\* line, and read_csv raises EmptyDataError on it
MergeChunks ==
    /\ pc = "merge"
    /\ Len(merges) < MaxMerges
    /\ \E names \in {chunk_files(files)} :
       \E unreadable \in {\E i \in 1..Len(names) : files[names[i]] = <<>>} :
       \E saved \in {IF names = <<>> \/ unreadable THEN files
                     ELSE SaveMerged(files,
                              DropDuplicatesKeepLast(ConcatFrames(files, names, 1), 1))} :
           /\ files' = saved
           /\ writes' = IF names = <<>> \/ unreadable THEN writes
                        ELSE Append(writes, MergedTag)
           /\ merges' = Append(merges, MergedFile(saved))
    /\ UNCHANGED <<pvars, rsvars, invocation, pc, args, site, city_urls, cities_done,
                   per_city, unique_urls, dc_urls, idx, all_data, attempts, net>>

(***************************************************************************)
(* The sites and arguments checked                                         *)
(***************************************************************************)
MaxLinks == 2       \* links on a city page (discovery family)
MaxChunk == 2       \* chunk_size
MaxStart == 2       \* start_index
MaxCap == 2         \* max_datacenters (0 stands for None)
MaxRows == 2        \* rows of the dataset rescrape_bad_urls reads
MaxRuns == 2        \* invocations of scrape_all_texas on one directory

Rel(segs) == Href(FALSE, segs, TRUE)
Abs(segs) == Href(TRUE, segs, TRUE)
Facility(city, name) == <<"usa", "texas", city, name>>

Dallas == <<"usa", "texas", "dallas">>
Austin == <<"usa", "texas", "austin">>

TwoCities ==
    [tables |-> <<<<Rel(Dallas), Rel(Austin)>>>>, links |-> <<Rel(Dallas), Rel(Austin)>>]

\* a first city page linking the facilities x, y, z in every way, x also by
\* its absolute URL, and a second one that repeats some of them
DiscoverySites ==
    {[texas |-> TwoCities,
      city |-> [u \in {Url(Dallas, TRUE), Url(Austin, TRUE)} |->
                   IF u = Url(Dallas, TRUE) THEN a ELSE b]] :
        a \in SeqsUpTo({Rel(Facility("dallas", "x")), Abs(Facility("dallas", "x")),
                        Rel(Facility("dallas", "y")), Rel(Facility("austin", "z"))},
                       MaxLinks),
        b \in {<<>>,
               <<Rel(Facility("dallas", "y")), Rel(Facility("austin", "z"))>>,
               <<Abs(Facility("dallas", "x")), Rel(Facility("dallas", "y")),
                 Rel(Facility("dallas", "x"))>>}}

\* a region of three cities, one of them named "as", with five facilities
\* (one under /c/), utility links, and facility links on the Texas page
SiteA ==
    [texas |->
        [tables |-> <<<<Rel(Dallas), Rel(<<"usa", "texas", "quote">>), Abs(Dallas),
                        Rel(<<"usa", "texas", "as">>)>>,
                      <<Rel(Dallas), Rel(Austin)>>>>,
         links |-> <<Rel(Dallas), Rel(Austin), Rel(Facility("dallas", "x")),
                     Rel(Facility("dallas", "visit"))>>],
     city |->
        [u \in {Url(Dallas, TRUE), Url(Austin, TRUE)} |->
            IF u = Url(Dallas, TRUE)
            THEN <<Rel(Facility("dallas", "x")), Rel(Facility("dallas", "quote")),
                   Rel(Facility("dallas", "y")), Rel(Facility("dallas", "c"))>>
            ELSE <<Rel(Facility("dallas", "y")), Abs(Facility("dallas", "x")),
                   Rel(Facility("austin", "z")), Rel(Facility("austin", "w"))>>]]

\* a Texas page without a table
SiteB ==
    [texas |-> [tables |-> <<>>, links |-> <<Rel(<<"about">>), Rel(Austin)>>],
     city |-> [u \in {Url(Austin, TRUE)} |-> <<Rel(Facility("austin", "z"))>>]]

RunArgs ==
    [mode : {"scrape"}, chunk_size : 1..MaxChunk, start_index : 0..MaxStart,
     max_datacenters : 0..MaxCap]

\* rows of a merged dataset: named rows, rows holding an error page's
\* heading, a row without a name; x occurs both as a good and as a bad row
CsvRows ==
    {[url |-> Url(Facility(f[1], f[2]), TRUE), data |-> [EmptyData EXCEPT !.name = f[3]]] :
        f \in {<<"dallas", "x", Str(<<"Acme">>)>>,
               <<"dallas", "x", Str(<<"Full", "Capacity">>)>>,
               <<"dallas", "y", Str(<<"You're", "in", "the", "Right", "Place">>)>>,
               <<"dallas", "c", Str(<<"Right", "Place">>)>>,
               <<"austin", "z", None>>}}

NoArgs == [mode |-> "none", chunk_size |-> 1, start_index |-> 0, max_datacenters |-> 0]

Init ==
    /\ ppc = "idle"
    /\ doc = Page(NoPayload, NoMeta, <<>>)
    /\ data = EmptyData
    /\ snap = <<>>
    /\ \/ /\ site \in DiscoverySites
          /\ args = [NoArgs EXCEPT !.mode = "discover"]
          /\ pc = "start"
          /\ files = <<>>
       \/ /\ site \in {SiteA, SiteB}
          /\ args \in RunArgs
          /\ pc = "start"
          /\ files = <<>>
       \/ /\ site = SiteB
          /\ args = [NoArgs EXCEPT !.mode = "rescrape"]
          /\ pc = "rescrape"
          /\ \/ files = <<>>
             \/ \E df \in SeqsUpTo(CsvRows, MaxRows) :
                    files = WriteFile(<<>>, CompleteTag, df)
    /\ city_urls = <<>>
    /\ cities_done = 0
    /\ per_city = <<>>
    /\ unique_urls = <<>>
    /\ dc_urls = <<>>
    /\ idx = 0
    /\ all_data = <<>>
    /\ attempts = <<>>
    /\ writes = <<>>
    /\ net = <<>>
    /\ bad_urls = <<>>
    /\ good_records = <<>>
    /\ fixed_data = <<>>
    /\ still_bad = <<>>
    /\ merges = <<>>
    /\ invocation = 1

\* a later invocation of scrape_all_texas on the same output directory and
\* prefix, resuming at a start index with the chunk size and the cap of the
\* invocation before it, which has returned or raised: a new process, the
\* files of the directory kept
ScrapeAgain ==
    /\ args.mode = "scrape"
    /\ pc \in {"done", "raised"}
    /\ invocation < MaxRuns
    /\ invocation' = invocation + 1
    /\ \E start_index \in 1..MaxStart :
        args' = [args EXCEPT !.start_index = start_index]
    /\ pc' = "start"
    /\ city_urls' = <<>>
    /\ cities_done' = 0
    /\ per_city' = <<>>
    /\ unique_urls' = <<>>
    /\ dc_urls' = <<>>
    /\ idx' = 0
    /\ all_data' = <<>>
    /\ attempts' = <<>>
    /\ net' = <<>>
    /\ UNCHANGED <<pvars, rsvars, merges, site, files, writes>>

\* the initial run starts at index 0
ResumeInit ==
    /\ Init
    /\ args.mode = "scrape"
    /\ args.start_index = 0

ResumeNext ==
    \/ GetTexasCityUrls
    \/ DirectApproach
    \/ GetDatacentersFromCity
    \/ ScrapeNext
    \/ ScrapeAgain

ResumeSpec == ResumeInit /\ [][ResumeNext]_vars

\* rows of checkpoint files: the facilities x, y, z under the names runs at
\* different times found for them
ChunkRows ==
    {[url |-> Url(Facility(f[1], f[2]), TRUE), data |-> [EmptyData EXCEPT !.name = f[3]]] :
        f \in {<<"dallas", "x", Str(<<"Acme">>)>>,
               <<"dallas", "x", Str(<<"Acme", "One">>)>>,
               <<"dallas", "x", Str(<<"5">>)>>,
               <<"dallas", "y", Str(<<"Acme">>)>>,
               <<"dallas", "y", Str(<<"Full", "Capacity">>)>>,
               <<"austin", "z", Str(<<"10">>)>>}}

\* the contents a checkpoint file may have: at most n rows, one per URL
ChunkContents(n) ==
    {rows \in SeqsUpTo(ChunkRows, n) :
        \A i, j \in 1..Len(rows) : i # j => rows[i].url # rows[j].url}

\* directories holding the checkpoints 5 and 10 and possibly 15
MergeDirs(n) ==
    {[t \in {ChunkTag(k) : k \in S} |->
        IF t = ChunkTag(5) THEN a ELSE IF t = ChunkTag(10) THEN b
        ELSE <<[url |-> Url(Facility("dallas", "x"), TRUE),
                data |-> [EmptyData EXCEPT !.name = Str(<<"Acme">>)]]>>] :
        a \in ChunkContents(n), b \in ChunkContents(n), S \in {{5, 10}, {5, 10, 15}}}
    \cup {<<>>}

MergeInit ==
    /\ ppc = "idle"
    /\ doc = Page(NoPayload, NoMeta, <<>>)
    /\ data = EmptyData
    /\ snap = <<>>
    /\ pc = "merge"
    /\ args = [NoArgs EXCEPT !.mode = "merge"]
    /\ site = SiteB
    /\ files \in MergeDirs(MaxFileRows)
    /\ city_urls = <<>>
    /\ cities_done = 0
    /\ per_city = <<>>
    /\ unique_urls = <<>>
    /\ dc_urls = <<>>
    /\ idx = 0
    /\ all_data = <<>>
    /\ attempts = <<>>
    /\ writes = <<>>
    /\ net = <<>>
    /\ bad_urls = <<>>
    /\ good_records = <<>>
    /\ fixed_data = <<>>
    /\ still_bad = <<>>
    /\ merges = <<>>
    /\ invocation = 1

MergeNext == MergeChunks

MergeSpec == MergeInit /\ [][MergeNext]_vars

Next ==
    \/ GetTexasCityUrls
    \/ DirectApproach
    \/ GetDatacentersFromCity
    \/ ScrapeNext
    \/ RescrapeStart
    \/ RescrapeNext

Spec == Init /\ [][Next]_vars

(***************************************************************************)
(* Claims about scrape_data_center_page (checked under PageSpec)           *)
(***************************************************************************)
Finished == ppc \in {"returned", "raised"}

\* C1: once a tier has left a field set to a value, no later tier changes
\* it: the record carries the value of the first tier that set the field.
C1_LaterTiersNeverOverride ==
    \A i \in 1..Len(snap) : \A f \in Fields :
        snap[i][f] # None => data[f] = snap[i][f]

PayloadHasName == doc.payload.kind = "dc" /\ Present(doc.payload.dc.name)

\* C2: a page whose payload carries a non-empty name yields a record whose
\* name is that payload value, whatever else the page and payload contain.
C2_PayloadNameReturned ==
    (PayloadHasName /\ Finished) =>
        (ppc = "returned" /\ data.name = doc.payload.dc.name)

\* the part of C2 that the code keeps: a record that is returned carries
\* the payload's name
C2_NameOfReturnedRecord ==
    (PayloadHasName /\ ppc = "returned") => data.name = doc.payload.dc.name

PayloadEmpty == doc.payload.kind \in {"absent", "nodc"}

\* the element's text contains "full capacity" or "right place", in any case
HasErrorPhrase(e) ==
    /\ e # NoElem
    /\ \E phrase \in {<<"full", "capacity">>, <<"right", "place">>} :
        Contains(Lower(e.text), phrase)

\* the heading: the element of the first name selector that selects one
Heading ==
    LET hit(i) == select_one(doc.body, name_selectors[i]) # NoElem
        i == Leftmost(Len(name_selectors), hit)
    IN IF i = 0 THEN NoElem ELSE select_one(doc.body, name_selectors[i])

AllHeadingsAreErrors ==
    \A i \in 1..Len(name_selectors) :
        LET e == select_one(doc.body, name_selectors[i])
        IN e = NoElem \/ HasErrorPhrase(e)

C4_NeverRaises == ppc # "raised"

(***************************************************************************)
(* Claims about get_page, discovery and scrape_all_texas (checked under    *)
(* Spec)                                                                   *)
(***************************************************************************)
Scraping == args.mode = "scrape"

\* the URL contains one of the six denylisted path segments
Denylisted(url) ==
    \E x \in {"ui", "api", "visit", "as", "legal", "c"} : HasSegment(url, x)

\* C5: no request is ever issued for a URL with a denylisted path segment:
\* get_page on such a URL neither sleeps nor requests, and hands its caller
\* the absent value.
C5_NoRequestForDenylistedUrl ==
    /\ \A i \in 1..Len(net) : net[i].e = "request" => ~Denylisted(net[i].url)
    /\ \A i \in 1..Len(net) :
        (net[i].e = "call" /\ Denylisted(net[i].url)) => (i = Len(net) \/ net[i + 1].e = "call")
    /\ \A i \in 1..Len(attempts) :
        Denylisted(attempts[i].url) => attempts[i].outcome = "none"

\* get_page was called on a URL under /c/ and on one under /as/, and the
\* execution went on to fetch another URL
C5_Witness ==
    /\ \E i \in 1..Len(net) : net[i].e = "call" /\ HasSegment(net[i].url, "c") /\ i < Len(net)
    /\ \E i \in 1..Len(net) : net[i].e = "call" /\ HasSegment(net[i].url, "as")
    /\ net[Len(net)].e = "request"

\* C6: every request directly follows one sleep of the configured delay
\* made for it (the first request included), a get_page call on a URL that
\* is not denylisted performs exactly one sleep and one request, and a
\* failed request is not repeated.
C6_OneSleepOneRequestPerFetch ==
    \A i \in 1..Len(net) :
        /\ net[i].e = "request" =>
            (i >= 3 /\ net[i - 1] = SleepEv(default_delay) /\ net[i - 2] = CallEv(net[i].url))
        /\ net[i].e = "sleep" => (i < Len(net) /\ net[i + 1].e = "request")
        /\ (net[i].e = "call" /\ ~Denylisted(net[i].url)) =>
            (i + 2 <= Len(net) /\ net[i + 1].e = "sleep" /\ net[i + 2].e = "request")
        /\ (net[i].e = "request" /\ i < Len(net)) => net[i + 1].e = "call"

\* a request failed and the execution went on with other fetches
C6_Witness ==
    /\ Len(net) >= 9
    /\ \E i \in 1..Len(net) : net[i].e = "request" /\ ~net[i].ok /\ i < Len(net)
    /\ \E i \in 1..Len(net) : net[i].e = "request" /\ net[i].ok

DiscoveryReturned ==
    args.mode \in {"discover", "scrape"} /\ pc \in {"discovered", "loop", "done", "raised"}

\* where the city pages name the URLs: <<city, position>> pairs
Mentions == UNION {{<<c, k>> : k \in 1..Len(per_city[c])} : c \in 1..Len(per_city)}

Before(p, q) == p[1] < q[1] \/ (p[1] = q[1] /\ p[2] < q[2])

FirstMention(u) ==
    CHOOSE p \in Mentions :
        /\ per_city[p[1]][p[2]] = u
        /\ \A q \in Mentions : per_city[q[1]][q[2]] = u => (q = p \/ Before(p, q))

X == Url(Facility("dallas", "x"), TRUE)
Y == Url(Facility("dallas", "y"), TRUE)
Z == Url(Facility("austin", "z"), TRUE)

\* C7: the list get_texas_datacenter_urls returns has no duplicate, holds
\* exactly the URLs the city pages yielded, and is ordered by first
\* appearance across the city pages in city order; cities yielding X, Y and
\* Y, Z give [X, Y, Z].
C7_UniqueInFirstSeenOrder ==
    DiscoveryReturned =>
        /\ \A i, j \in 1..Len(unique_urls) : i # j => unique_urls[i] # unique_urls[j]
        /\ cities_done > 0 =>
            /\ {unique_urls[i] : i \in 1..Len(unique_urls)}
                    = {per_city[p[1]][p[2]] : p \in Mentions}
            /\ \A i, j \in 1..Len(unique_urls) :
                i < j => Before(FirstMention(unique_urls[i]), FirstMention(unique_urls[j]))
        /\ per_city = <<<<X, Y>>, <<Y, Z>>>> => unique_urls = <<X, Y, Z>>

C7_Witness ==
    /\ pc = "discovered"
    /\ site.city[Url(Dallas, TRUE)] = <<Rel(Facility("dallas", "x")), Rel(Facility("dallas", "y"))>>
    /\ site.city[Url(Austin, TRUE)] = <<Rel(Facility("dallas", "y")), Rel(Facility("austin", "z"))>>
    /\ per_city = <<<<X, Y>>, <<Y, Z>>>>
    /\ unique_urls = <<X, Y, Z>>

\* the checkpoint tags written so far, in the order of writing
ChunkWrites == SelectSeq(writes, LAMBDA t : t[1] = "chunk")

\* the tags k in s+1..n with k mod c = 0, in increasing order
ExpectedChunks(n) ==
    LET ks == {k \in (args.start_index + 1)..n : k % args.chunk_size = 0}
    IN [i \in 1..Cardinality(ks) |->
            ChunkTag(CHOOSE k \in ks : Cardinality({j \in ks : j <= k}) = i)]

Attempted == args.start_index + Len(attempts)

\* C8: at every point of a run the checkpoints written are exactly those
\* tagged k, for k in s+1..(positions attempted so far) with k mod c = 0, in
\* increasing order: each is written right after the URL at position k has
\* been attempted, kept or not.
C8_CheckpointAfterEveryChunk ==
    Scraping => ChunkWrites = ExpectedChunks(Attempted)

\* the same cadence for the runs in which no extraction raises
C8_CadenceWhenNoExtractionRaises ==
    (Scraping /\ \A i \in 1..Len(attempts) : attempts[i].outcome # "raised")
        => ChunkWrites = ExpectedChunks(Attempted)

\* c = 2, s = 0 and 5 URLs: the checkpoints are those tagged 2 and 4
C8_TwoOfFive ==
    /\ Scraping /\ pc = "done"
    /\ args.chunk_size = 2 /\ args.start_index = 0 /\ Len(dc_urls) = 5
    /\ ChunkWrites = <<ChunkTag(2), ChunkTag(4)>>

NonEmptyName(d) == d.name \notin {None, Str(<<>>)}

\* the records of the URLs attempted at positions <= k whose extraction
\* yielded a non-empty name, in the order of the attempts
KeptUpTo(k) ==
    LET sel == SelectSeq(attempts,
                   LAMBDA a : a.k <= k /\ a.outcome = "record" /\ NonEmptyName(a.data))
    IN [i \in 1..Len(sel) |-> [url |-> sel[i].url, data |-> sel[i].data]]

\* C9: at every point of a run, the checkpoint file tagged k holds exactly
\* one record, in manifest order, for every URL attempted at a position <= k
\* whose extraction yielded a non-empty name, and no record with an empty
\* name.
C9_CheckpointIsCumulativeSnapshot ==
    Scraping =>
        \A t \in DOMAIN files :
            t[1] = "chunk" =>
                /\ files[t] = KeptUpTo(t[2])
                /\ \A i \in 1..Len(files[t]) : NonEmptyName(files[t][i].data)

\* two checkpoints, the later one holding more records than the earlier, a
\* URL without a name among those attempted before the later one, and a
\* record kept after it
C9_Witness ==
    /\ Scraping
    /\ \E j, k \in 1..Len(attempts) :
        /\ j < k
        /\ ChunkTag(j) \in DOMAIN files /\ ChunkTag(k) \in DOMAIN files
        /\ 0 < Len(files[ChunkTag(j)])
        /\ Len(files[ChunkTag(j)]) < Len(files[ChunkTag(k)])
        /\ Len(files[ChunkTag(k)]) < k - args.start_index
        /\ Len(files[ChunkTag(k)]) < Len(all_data)

FinalWrites == SelectSeq(writes, LAMBDA t : t = FinalTag)

FinalFileHoldsKeptRecords ==
    /\ Len(FinalWrites) = 1
    /\ FinalTag \in DOMAIN files
    /\ files[FinalTag] = KeptUpTo(Attempted)

\* C10 as stated: an invocation of scrape_all_texas that has returned has
\* written exactly one final file, holding the records it kept, whatever
\* the discovery found.
C10_ReturnedRunWroteFinalFile ==
    (Scraping /\ pc = "done") => FinalFileHoldsKeptRecords

\* C10 as amended: an invocation that has returned after discovery found at
\* least one URL has written exactly one final file, holding the records it
\* kept; one that has returned after discovery found no URL has written no
\* file at all.
C10_FinalFileUnlessNothingDiscovered ==
    (Scraping /\ pc = "done") =>
        IF unique_urls = <<>> THEN files = <<>> /\ writes = <<>>
        ELSE FinalFileHoldsKeptRecords

\* a run that returned without having written a checkpoint, its final file
\* holding the record it kept
C10_Witness ==
    /\ Scraping /\ pc = "done"
    /\ unique_urls # <<>>
    /\ ChunkWrites = <<>>
    /\ attempts # <<>>
    /\ FinalTag \in DOMAIN files
    /\ Len(files[FinalTag]) > 0

(***************************************************************************)
(* Claims about merge_chunks (checked under MergeSpec)                     *)
(***************************************************************************)
ChunkTags == {t \in DOMAIN files : t[1] = "chunk"}

\* the rows of every checkpoint file, each with the file it is in
ChunkEntries == UNION {{<<t, i>> : i \in 1..Len(files[t])} : t \in ChunkTags}

ChunkUrls == {files[c[1]][c[2]].url : c \in ChunkEntries}

Merged == {i \in 1..Len(merges) : merges[i].written}

\* C11: for a fixed set of checkpoint files, every merge_chunks call leaves
\* the same merged file, with the same rows and the same number of rows, as
\* the call before it.
C11_MergeIsIdempotent ==
    \A i, j \in 1..Len(merges) : merges[i] = merges[j]

\* two merges of checkpoint files that share a URL, both having written
C11_Witness ==
    /\ Len(merges) = 2
    /\ merges[2].written
    /\ Len(merges[2].rows) >= 2
    /\ Len(merges[2].rows) < Cardinality(ChunkEntries)

\* the files holding a row for the URL u
Holders(u) == {c \in ChunkEntries : files[c[1]][c[2]].url = u}

\* the holder of u whose file name sorts last
LastByName(u) ==
    CHOOSE c \in Holders(u) : \A d \in Holders(u) : ~ NameBefore(c[1][2], d[1][2])

\* the holder of u whose progress index is greatest
LastByIndex(u) ==
    CHOOSE c \in Holders(u) : \A d \in Holders(u) : d[1][2] <= c[1][2]

\* the row of the checkpoint entry c as read_csv reads it
RowRead(c) == read_csv(files[c[1]])[c[2]]

OneRowPerUrl(rows) ==
    /\ {rows[i].url : i \in 1..Len(rows)} = ChunkUrls
    /\ \A i, j \in 1..Len(rows) : rows[i].url = rows[j].url => i = j

\* C12: a merged file has exactly one row for every URL of the checkpoint
\* files, and the row of a URL is the one of the file that comes last in the
\* sorted order of the file names among the files holding that URL.
C12_OneRowPerUrlFromLastFile ==
    \A m \in Merged :
        /\ OneRowPerUrl(merges[m].rows)
        /\ \A i \in 1..Len(merges[m].rows) :
               merges[m].rows[i] = RowRead(LastByName(merges[m].rows[i].url))

\* a merge of two checkpoint files that hold different rows for one URL
C12_Witness ==
    /\ Merged # {}
    /\ \E u \in ChunkUrls :
       \E c, d \in Holders(u) : c[1] # d[1] /\ RowRead(c) # RowRead(d)

\* C16: when a URL is in several checkpoint files, its merged row is the one
\* of the checkpoint with the greatest progress index.
C16_GreatestIndexWins ==
    \A m \in Merged :
    \A i \in 1..Len(merges[m].rows) :
        merges[m].rows[i] = RowRead(LastByIndex(merges[m].rows[i].url))

(***************************************************************************)
(* Claims about rescrape_bad_urls (checked under Spec)                     *)
(***************************************************************************)
Rescraping == args.mode = "rescrape"

AsRow(a) == [url |-> a.url, data |-> a.data]

\* the re-scrape a yielded a non-empty name that matches none of the phrases
\* of identify_bad_records
YieldedCleanName(a) ==
    /\ a.outcome = "record"
    /\ NonEmptyName(a.data)
    /\ ~ error_mask(AsRow(a))

YieldedNoCleanName(a) == ~ YieldedCleanName(a)

\* the re-scrapes whose classification is done
Classified == SubSeq(attempts, 1, idx)

\* C13: a re-scraped bad row is classified as fixed exactly when the new
\* extraction yields a non-empty name that matches none of the placeholder
\* phrases of identify_bad_records, and its URL goes to the still-bad list
\* otherwise; so no row classified as fixed is one identify_bad_records
\* would call bad.
C13_FixedIffNoPlaceholderPhrase ==
    Rescraping =>
        /\ fixed_data = [i \in 1..Len(SelectSeq(Classified, YieldedCleanName)) |->
                            AsRow(SelectSeq(Classified, YieldedCleanName)[i])]
        /\ still_bad = [i \in 1..Len(SelectSeq(Classified, YieldedNoCleanName)) |->
                            SelectSeq(Classified, YieldedNoCleanName)[i].url]
        /\ \A i \in 1..Len(fixed_data) : ~ error_mask(fixed_data[i])

\* a confirmed pass over the bad rows that has run to its end
PassCompleted ==
    /\ Rescraping
    /\ pc = "done"
    /\ bad_urls # <<>>
    /\ idx = Len(bad_urls)

\* the rows of the dataset the pass read that no placeholder phrase matches
GoodRows == SelectSeq(files[CompleteTag], LAMBDA row : ~ error_mask(row))

\* the last row of rows with the URL u
LastWithUrl(rows, u) ==
    rows[CHOOSE i \in 1..Len(rows) :
            /\ rows[i].url = u
            /\ \A j \in (i + 1)..Len(rows) : rows[j].url # u]

\* rows is the good rows and the fixed rows, one row per URL, the fixed row
\* of a URL taking the place of its good row
IsCleanDataset(rows) ==
    /\ {rows[i].url : i \in 1..Len(rows)}
         = {GoodRows[i].url : i \in 1..Len(GoodRows)}
             \cup {fixed_data[i].url : i \in 1..Len(fixed_data)}
    /\ \A i, j \in 1..Len(rows) : rows[i].url = rows[j].url => i = j
    /\ \A i \in 1..Len(rows) :
           rows[i] = IF \E k \in 1..Len(fixed_data) : fixed_data[k].url = rows[i].url
                     THEN LastWithUrl(fixed_data, rows[i].url)
                     ELSE LastWithUrl(GoodRows, rows[i].url)

\* C14 as stated: every confirmed pass that completes has saved the clean
\* dataset, for any number of fixed rows, zero included.
C14_CompletedPassSavedCleanDataset ==
    PassCompleted =>
        /\ CleanTag \in DOMAIN files
        /\ IsCleanDataset(files[CleanTag])

\* C14 as amended: a confirmed pass that completes with at least one fixed
\* row has saved the clean dataset: the good rows and the fixed rows, one
\* row per URL, the fixed row winning; a pass that completes with no fixed
\* row has saved no clean dataset.
C14_CleanDatasetUnlessNothingFixed ==
    PassCompleted =>
        IF fixed_data = <<>> THEN CleanTag \notin DOMAIN files
        ELSE /\ CleanTag \in DOMAIN files
             /\ IsCleanDataset(files[CleanTag])

\* a completed pass that fixed a URL, the fixed row having replaced a good
\* row of the same URL
C14_Witness ==
    /\ PassCompleted
    /\ fixed_data # <<>>
    /\ CleanTag \in DOMAIN files
    /\ \E i \in 1..Len(GoodRows) :
           /\ GoodRows[i].url = fixed_data[1].url
           /\ GoodRows[i] # fixed_data[1]

(***************************************************************************)
(* Claims about repeated invocations (checked under ResumeSpec)            *)
(***************************************************************************)
IsChunkTag(t) == t[1] = "chunk"

\* C15: over an initial run of scrape_all_texas and the resume runs that
\* follow it on the same directory and prefix, no checkpoint is written to a
\* file that a checkpoint was written to before.
C15_NoCheckpointWrittenTwice ==
    \A i, j \in 1..Len(writes) :
        (i < j /\ IsChunkTag(writes[i])) => writes[i] # writes[j]

(***************************************************************************)
(* Claims about the year and the script scan (checked under PageSpec)      *)
(***************************************************************************)
YearLabels == {"year", "opened", "operational", "built"}

FourDigitYears == {t \in Numerals : 1900 <= NumeralValue[t] /\ NumeralValue[t] <= 2099}

\* the positions of text at which a label is followed by a four-digit year
LabelledYears(text) ==
    {i \in 1..(Len(text) - 1) :
        Lower(text)[i] \in YearLabels /\ text[i + 1] \in FourDigitYears}

\* the scanned elements of the page that hold a labelled year
ElementsWithYear ==
    {i \in 1..Len(doc.body) :
        IsSpecElement(doc.body[i]) /\ LabelledYears(doc.body[i].text) # {}}

\* the year of the first labelled occurrence in document order
FirstLabelledYear ==
    LET e == CHOOSE i \in ElementsWithYear : \A j \in ElementsWithYear : i <= j
        text == doc.body[e].text
        at == CHOOSE i \in LabelledYears(text) : \A j \in LabelledYears(text) : i <= j
    IN NumeralValue[text[at + 1]]

\* C17: when year_operational is empty after tier 1 and a scanned element
\* holds a label followed by a four-digit year, the record returned has the
\* year of the first such occurrence as its year_operational.
C17_YearOfFirstLabelledOccurrence ==
    (/\ ppc = "returned"
     /\ snap[1].year_operational = None
     /\ ElementsWithYear # {})
        => data.year_operational = Num(FirstLabelledYear)

\* the record as the meta-tag fallbacks of tier 3 leave it
AfterMetaTags ==
    Tier3Separate(Tier3Position(snap[2], doc.geopos), doc.geolat, doc.geolon)

\* the scripts in which both regular expressions match, and the pair matched
HasPair(i) ==
    /\ CoordMatch(doc.scripts[i], {"lat"}) # ""
    /\ CoordMatch(doc.scripts[i], {"lng", "lon"}) # ""

PairOf(i) ==
    [lat |-> NumeralValue[CoordMatch(doc.scripts[i], {"lat"})],
     lng |-> NumeralValue[CoordMatch(doc.scripts[i], {"lng", "lon"})]]

InBounds(i) ==
    /\ HasPair(i)
    /\ 25 <= PairOf(i).lat /\ PairOf(i).lat <= 37
    /\ 0 - 107 <= PairOf(i).lng /\ PairOf(i).lng <= 0 - 93

ScriptsInBounds == {i \in 1..Len(doc.scripts) : InBounds(i)}

ScanReached == Len(snap) >= 3 /\ ~ Truthy(AfterMetaTags.latitude)

====
